---------------------------- MODULE Spec2Model ----------------------------
(***************************************************************************)
(* Wordle feedback engine, candidate filter, hint matrices and strategy    *)
(* search of r1cc4rdo/wordle (src/wordle.py, src/naive.py,                 *)
(* src/precompute.py).                                                     *)
(*                                                                         *)
(* Letters are numbers (a = 1, b = 2, ..., z = 26), a word is a sequence   *)
(* of letters, a hint is a sequence over "x" (gray), "y" (yellow), "g"     *)
(* (green) and "_" (a slot guess_to_hint never wrote).                     *)
(***************************************************************************)
EXTENDS Integers, Sequences, FiniteSets, TLC

VARIABLES
    pc,          \* the operation that has run ("start" before any)
    guess,       \* the guessed word
    solution,    \* the solution the guess is scored against
    hint,        \* the hint handed to filter_wordlist
    vocabulary,  \* the list of words a guess is taken from
    target_set,  \* the list of candidate solutions
    result,      \* what the operation returned
    raised       \* the exception it ended in, "none" when it returned

vars == <<pc, guess, solution, hint, vocabulary, target_set, result, raised>>

(***************************************************************************)
(* Sizes.                                                                  *)
(***************************************************************************)
\* size of the alphabet the word pairs are drawn from (a bound of the model)
NumLetters == 3

\* the length of every well-formed word and hint (hint = ['_'] * 5)
WordLen == 5

Min(a, b) == IF a < b THEN a ELSE b

Letters == 1..NumLetters

\* every 5-letter word over the bounded alphabet
Words == [1..WordLen -> Letters]

(***************************************************************************)
(* Python helpers: str.lower, collections.Counter, str.count, zip.         *)
(***************************************************************************)
\* str.lower, letter by letter; an upper-case letter is the negated number
lower(word) == [i \in 1..Len(word) |-> IF word[i] < 0 THEN -word[i] ELSE word[i]]

\* word.count(letter)
RECURSIVE count(_, _)
count(word, letter) ==
    IF word = <<>> THEN 0
    ELSE (IF Head(word) = letter THEN 1 ELSE 0) + count(Tail(word), letter)

\* set(word)
letters_of(word) == {word[i] : i \in 1..Len(word)}

\* Counter(word): only the letters of the word are keys
Counter(word) == [l \in letters_of(word) |-> count(word, l)]

\* counter[letter]: a missing key reads as 0
Get(counter, letter) == IF letter \in DOMAIN counter THEN counter[letter] ELSE 0

\* counter[letter] -= 1: creates the key when it is missing
Decrement(counter, letter) ==
    [l \in (DOMAIN counter) \cup {letter} |->
        IF l = letter THEN Get(counter, l) - 1 ELSE Get(counter, l)]

(***************************************************************************)
(* guess_to_hint (src/wordle.py:44-70, src/naive.py:49-74).                *)
(* The loop state is the hint under construction and the letter counter.   *)
(***************************************************************************)
\* hint[index] = 'g' raises IndexError when zip(guess, solution) runs past the
\* five slots of hint and the letters at such an index agree
guess_to_hint_raises(guess_, solution_) ==
    \E index \in (WordLen + 1)..Min(Len(guess_), Len(solution_)) :
        lower(guess_)[index] = lower(solution_)[index]

\* green_pass with the greens not consuming a count of their letter
RECURSIVE green_pass_keeps_counts(_, _, _, _)
green_pass_keeps_counts(g, s, index, st) ==
    IF index > Min(Min(Len(g), Len(s)), WordLen) THEN st
    ELSE IF g[index] = s[index]
         THEN green_pass_keeps_counts(g, s, index + 1,
                  [hint   |-> [st.hint EXCEPT ![index] = "g"],
                   counts |-> st.counts])
         ELSE green_pass_keeps_counts(g, s, index + 1, st)

\* first loop: greens, each consuming one count of its letter
RECURSIVE green_pass(_, _, _, _)
green_pass(g, s, index, st) ==
    IF index > Min(Min(Len(g), Len(s)), WordLen) THEN st
    ELSE IF g[index] = s[index]
         THEN green_pass(g, s, index + 1,
                  [hint   |-> [st.hint EXCEPT ![index] = "g"],
                   counts |-> Decrement(st.counts, s[index])])
         ELSE green_pass(g, s, index + 1, st)

\* yellow_pass with the yellows not consuming a count of their letter
RECURSIVE yellow_pass_keeps_counts(_, _, _)
yellow_pass_keeps_counts(g, index, st) ==
    IF index > Min(Len(g), WordLen) THEN st
    ELSE IF st.hint[index] = "g"
         THEN yellow_pass_keeps_counts(g, index + 1, st)
         ELSE yellow_pass_keeps_counts(g, index + 1,
                  [hint   |-> [st.hint EXCEPT
                                  ![index] = IF Get(st.counts, g[index]) > 0
                                             THEN "y" ELSE "x"],
                   counts |-> st.counts])

\* second loop: every slot that is not green turns yellow while its letter
\* has counts left, gray otherwise, and always consumes one count
RECURSIVE yellow_pass(_, _, _)
yellow_pass(g, index, st) ==
    IF index > Min(Len(g), WordLen) THEN st
    ELSE IF st.hint[index] = "g"
         THEN yellow_pass(g, index + 1, st)
         ELSE yellow_pass(g, index + 1,
                  [hint   |-> [st.hint EXCEPT
                                  ![index] = IF Get(st.counts, g[index]) > 0
                                             THEN "y" ELSE "x"],
                   counts |-> Decrement(st.counts, g[index])])

guess_to_hint(guess_, solution_) ==
    LET g  == lower(guess_)
        s  == lower(solution_)
        s0 == [hint |-> [i \in 1..WordLen |-> "_"], counts |-> Counter(s)]
    IN  yellow_pass(g, 1, green_pass(g, s, 1, s0)).hint

(***************************************************************************)
(* filter_wordlist (src/wordle.py:9-41; src/naive.py:7-46 is the same      *)
(* filter returning the indexes of the words instead of the words).        *)
(***************************************************************************)
\* the upper bound of a letter that has no gray hint (... if xs else 6)
MaxCount == 6

\* hint.lower()
lower_hint(h) ==
    [i \in 1..Len(h) |->
        CASE h[i] = "G" -> "g" [] h[i] = "Y" -> "y" [] h[i] = "X" -> "x"
          [] OTHER -> h[i]]

\* zip(guess, hint) stops at the shorter of the two
zip_len(g, h) == Min(Len(g), Len(h))

\* first loop: a green hint keeps the words with that letter at that index;
\* word[index] raises IndexError on a word that is too short
RECURSIVE green_stage(_, _, _, _, _)
green_stage(wordlist, g, h, index, st) ==
    IF index > zip_len(g, h) \/ st.raised # "none" THEN st
    ELSE IF h[index] # "g" THEN green_stage(wordlist, g, h, index + 1, st)
    ELSE IF \E k \in 1..Len(st.kept) : Len(wordlist[st.kept[k]]) < index
         THEN [kept |-> <<>>, raised |-> "IndexError"]
         ELSE green_stage(wordlist, g, h, index + 1,
                  [kept   |-> LET at(k) == wordlist[k][index] = g[index]
                              IN  SelectSeq(st.kept, at),
                   raised |-> "none"])

\* letter_hints.count(c): the hints of kind c at the positions of the letter
letter_hints_count(g, h, letter, c) ==
    Cardinality({i \in 1..zip_len(g, h) : g[i] = letter /\ h[i] = c})

min_bound(g, h, letter) ==
    letter_hints_count(g, h, letter, "g") + letter_hints_count(g, h, letter, "y")

\* max_bound without the "if xs else 6": the credited count is the upper
\* bound even when no occurrence of the letter is gray
max_bound_always_credited(g, h, letter) ==
    letter_hints_count(g, h, letter, "g") + letter_hints_count(g, h, letter, "y")

max_bound(g, h, letter) ==
    IF letter_hints_count(g, h, letter, "x") # 0
    THEN letter_hints_count(g, h, letter, "g") + letter_hints_count(g, h, letter, "y")
    ELSE MaxCount

\* second loop: one filter per letter of set(guess); the filters commute
within_bounds(word, g, h) ==
    \A letter \in letters_of(g) :
        /\ min_bound(g, h, letter) <= count(word, letter)
        /\ count(word, letter) <= max_bound(g, h, letter)

\* both loops: the indexes of the words kept, and the exception raised if any
filter_run(wordlist, guess_, hint_) ==
    LET g  == lower(guess_)
        h  == lower_hint(hint_)
        s0 == [kept |-> [i \in 1..Len(wordlist) |-> i], raised |-> "none"]
        st == green_stage(wordlist, g, h, 1, s0)
        ok(k) == within_bounds(wordlist[k], g, h)
    IN  IF st.raised # "none" THEN st
        ELSE [kept |-> SelectSeq(st.kept, ok), raised |-> "none"]

filter_wordlist_raises(wordlist, guess_, hint_) ==
    filter_run(wordlist, guess_, hint_).raised # "none"

\* src/naive.py: the indexes, 0-based, of the words kept
filter_indexes(wordlist, guess_, hint_) ==
    LET kept == filter_run(wordlist, guess_, hint_).kept
    IN  [k \in 1..Len(kept) |-> kept[k] - 1]

\* src/wordle.py: the words kept, in the order of wordlist
filter_wordlist(wordlist, guess_, hint_) ==
    LET kept == filter_run(wordlist, guess_, hint_).kept
    IN  [k \in 1..Len(kept) |-> wordlist[kept[k]]]

(***************************************************************************)
(* The 243 hint strings and their numbering: hint_strings_builder and      *)
(* hint_to_index (src/precompute.py:10-15, 59), hint_num                   *)
(* (src/wordle.py:156-157).                                                *)
(***************************************************************************)
RECURSIVE Pow3(_)
Pow3(n) == IF n = 0 THEN 1 ELSE 3 * Pow3(n - 1)

\* the characters of 'xyg' in the order product() takes them
xyg == <<"x", "y", "g">>

\* list(map(''.join, product('xyg', repeat=5))): 'xxxxx' first, 'ggggg' last,
\* the last position varying fastest
hint_strings_builder ==
    [k \in 1..Pow3(WordLen) |->
        [i \in 1..WordLen |-> xyg[(((k - 1) \div Pow3(WordLen - i)) % 3) + 1]]]

\* dict(zip(hint_strings_builder(), count())): hint string -> 0-based index
hint_to_index ==
    [h \in {hint_strings_builder[k] : k \in 1..Pow3(WordLen)} |->
        (CHOOSE k \in 1..Pow3(WordLen) : hint_strings_builder[k] = h) - 1]

\* a value stored into an np.uint8 array
uint8(n) == n % 256

(***************************************************************************)
(* precompute_guesses_to_hints (src/precompute.py:38-78): the numpy        *)
(* statements act on every row (solution) of the target independently;     *)
(* vector_row is what they do to the row of one solution.                  *)
(***************************************************************************)
\* guess_to_hints[chars[:, index] == letter, index] = 'g', for every index
vector_greens(g, s) ==
    [index \in 1..WordLen |-> IF s[index] = g[index] THEN "g" ELSE "x"]

\* already_assigned counting the yellows only, not the greens
already_assigned_yellows_only(g, row, letter) ==
    Cardinality({p \in 1..WordLen : g[p] = letter /\ row[p] = "y"})

\* np.count_nonzero(guess_to_hints[:, letter_in_guess] != 'x', axis=1)
already_assigned(g, row, letter) ==
    Cardinality({p \in 1..WordLen : g[p] = letter /\ row[p] # "x"})

\* has_capacity = letter_in_solution - already_assigned > 0
has_capacity(g, s, row, letter) ==
    count(s, letter) - already_assigned(g, row, letter) > 0

\* second loop: guess_to_hints[has_capacity & ~is_green, index] = 'y'
RECURSIVE vector_yellows(_, _, _, _)
vector_yellows(g, s, index, row) ==
    IF index > WordLen THEN row
    ELSE vector_yellows(g, s, index + 1,
             IF has_capacity(g, s, row, g[index]) /\ row[index] # "g"
             THEN [row EXCEPT ![index] = "y"]
             ELSE row)

vector_row(g, s) == vector_yellows(g, s, 1, vector_greens(g, s))

\* the matrix returned when no cache file exists
precompute_guesses_to_hints(source, target) ==
    [guess_index \in 1..Len(source) |->
        [sol_index \in 1..Len(target) |->
            uint8(hint_to_index[vector_row(source[guess_index], target[sol_index])])]]

(***************************************************************************)
(* Word lists: sorted(...) and dictionaries that keep insertion order.     *)
(***************************************************************************)
\* the order of str: letter by letter, a proper prefix first
RECURSIVE word_less(_, _)
word_less(a, b) ==
    IF b = <<>> THEN FALSE
    ELSE IF a = <<>> THEN TRUE
    ELSE IF Head(a) # Head(b) THEN Head(a) < Head(b)
    ELSE word_less(Tail(a), Tail(b))

\* sorted(set_of_words)
RECURSIVE sorted_set(_)
sorted_set(S) ==
    IF S = {} THEN <<>>
    ELSE LET least == CHOOSE w \in S : \A v \in S : v = w \/ word_less(w, v)
         IN  <<least>> \o sorted_set(S \ {least})

\* set(list)
set_of(list) == {list[i] : i \in 1..Len(list)}

\* sorted(list): duplicates stay, each as often as it occurs
RECURSIVE sorted(_)
sorted(list) ==
    IF list = <<>> THEN <<>>
    ELSE LET i == CHOOSE i \in 1..Len(list) :
                      \A j \in 1..Len(list) : ~word_less(list[j], list[i])
         IN  <<list[i]>> \o sorted([k \in 1..(Len(list) - 1) |->
                                        IF k < i THEN list[k] ELSE list[k + 1]])

\* keys, in insertion order, of the dict built by counting or grouping the
\* items of a list
RECURSIVE distinct_in_order(_)
distinct_in_order(list) ==
    IF list = <<>> THEN <<>>
    ELSE LET front == distinct_in_order(SubSeq(list, 1, Len(list) - 1))
             last  == list[Len(list)]
         IN  IF last \in set_of(front) THEN front ELSE Append(front, last)

\* results[key] = value on a dict held as a sequence of <<key, value>>
put(dict, key, value) ==
    IF \E i \in 1..Len(dict) : dict[i][1] = key
    THEN [i \in 1..Len(dict) |-> IF dict[i][1] = key THEN <<key, value>> ELSE dict[i]]
    ELSE Append(dict, <<key, value>>)

\* dict.values()
values(dict) == [i \in 1..Len(dict) |-> dict[i][2]]

(***************************************************************************)
(* Costs of average_number_of_guesses.  A cost is <<a, b, d>>, the float   *)
(* (a * 1e30 + b) / d in lowest terms.  A float holds about 16 digits, so  *)
(* adding a small number to a multiple of 1e30 leaves it unchanged         *)
(* (1 + 1e30 == 1e30): b is 0 whenever a > 0.  Rounding in the last digit  *)
(* of a multiple of 1e30 is not modelled.                                  *)
(***************************************************************************)
RECURSIVE gcd(_, _)
gcd(m, n) == IF n = 0 THEN m ELSE gcd(n, m % n)

cost_of(a, b, d) ==
    LET b1 == IF a > 0 THEN 0 ELSE b
        k  == gcd(gcd(a, b1), d)
    IN  <<a \div k, b1 \div k, d \div k>>

cost_zero == cost_of(0, 0, 1)

cost_one == cost_of(0, 1, 1)

cost_add(x, y) == cost_of(x[1] * y[3] + y[1] * x[3], x[2] * y[3] + y[2] * x[3], x[3] * y[3])

cost_div(x, n) == cost_of(x[1], x[2], x[3] * n)

cost_less(x, y) ==
    \/ x[1] * y[3] < y[1] * x[3]
    \/ x[1] * y[3] = y[1] * x[3] /\ x[2] * y[3] < y[2] * x[3]

\* sum(costs)
RECURSIVE cost_sum(_)
cost_sum(costs) ==
    IF costs = <<>> THEN cost_zero
    ELSE cost_add(cost_sum(SubSeq(costs, 1, Len(costs) - 1)), costs[Len(costs)])

\* min(costs) of a non-empty sequence
cost_min(costs) ==
    costs[CHOOSE i \in 1..Len(costs) : \A j \in 1..Len(costs) : ~cost_less(costs[j], costs[i])]

(***************************************************************************)
(* average_number_of_guesses (src/wordle.py:94-133).  It returns           *)
(* [raised, results]: the exception it ended in, or "none" and the dict.   *)
(***************************************************************************)
\* no_information with a cost of 0 in place of 1e30
no_information_zero == cost_of(0, 0, 1)

\* the cost 1e30 of a guess or a hint that gains no information
no_information == cost_of(1, 0, 1)

\* single_target with a cost of 1 in place of 0
single_target_costs_one == << << <<>>, cost_one >> >>

\* the dict returned for a target set of one word: {'': 0}
single_target == << << <<>>, cost_zero >> >>

\* the keys of hint_to_solutions: the hints of the guess against the words of
\* the target set, in the order they first occur
hint_keys(guess_, target) ==
    distinct_in_order([i \in 1..Len(target) |-> guess_to_hint(guess_, target[i])])

RECURSIVE average_number_of_guesses(_, _)
RECURSIVE guess_loop(_, _, _, _)
RECURSIVE guess_loop_stops_at_first(_, _, _, _)
RECURSIVE hint_loop(_, _, _, _, _, _)

\* for hint in hint_to_solutions: ... fills num_guesses (here the costs, in
\* the order of the hints)
hint_loop(reduced_vocabulary, target, guess_, hints, k, num_guesses) ==
    IF k > Len(hints) THEN [raised |-> "none", costs |-> num_guesses]
    ELSE
      LET reduced_target_set == filter_wordlist(target, guess_, hints[k])
      IN  IF Len(reduced_target_set) = 1
          THEN hint_loop(reduced_vocabulary, target, guess_, hints, k + 1,
                         Append(num_guesses, cost_one))
          ELSE IF Len(reduced_target_set) = Len(target)
          THEN hint_loop(reduced_vocabulary, target, guess_, hints, k + 1,
                         Append(num_guesses, no_information))
          ELSE
            LET guess_avg == average_number_of_guesses(reduced_vocabulary, reduced_target_set)
            IN  IF guess_avg.raised # "none"
                THEN [raised |-> guess_avg.raised, costs |-> <<>>]
                ELSE IF guess_avg.results = <<>>
                THEN [raised |-> "ValueError", costs |-> <<>>]  \* min() of nothing
                ELSE hint_loop(reduced_vocabulary, target, guess_, hints, k + 1,
                         Append(num_guesses,
                                cost_add(cost_one, cost_min(values(guess_avg.results)))))

\* guess_loop stopping at the first guess that has several hints, whatever
\* its cost
guess_loop_stops_at_first(vocab, target, i, results) ==
    IF i > Len(vocab) THEN [raised |-> "none", results |-> results]
    ELSE
      LET guess_ == vocab[i]
          reduced_vocabulary == sorted_set(set_of(vocab) \ {guess_})
          hints == hint_keys(guess_, target)
      IN  IF Len(hints) = 1
          THEN guess_loop_stops_at_first(vocab, target, i + 1,
                                         put(results, guess_, no_information))
          ELSE
            LET ng == hint_loop(reduced_vocabulary, target, guess_, hints, 1, <<>>)
                cost == cost_div(cost_sum(ng.costs), Len(ng.costs))
            IN  IF ng.raised # "none"
                THEN [raised |-> ng.raised, results |-> <<>>]
                ELSE [raised |-> "none", results |-> put(results, guess_, cost)]

\* for guess in vocabulary: ... fills results, and stops at a cost of 1
guess_loop(vocab, target, i, results) ==
    IF i > Len(vocab) THEN [raised |-> "none", results |-> results]
    ELSE
      LET guess_ == vocab[i]
          reduced_vocabulary == sorted_set(set_of(vocab) \ {guess_})
          hints == hint_keys(guess_, target)
      IN  IF Len(hints) = 1
          THEN guess_loop(vocab, target, i + 1, put(results, guess_, no_information))
          ELSE
            LET ng == hint_loop(reduced_vocabulary, target, guess_, hints, 1, <<>>)
                cost == cost_div(cost_sum(ng.costs), Len(ng.costs))
            IN  IF ng.raised # "none"
                THEN [raised |-> ng.raised, results |-> <<>>]
                ELSE IF cost = cost_one
                THEN [raised |-> "none", results |-> put(results, guess_, cost)]
                ELSE guess_loop(vocab, target, i + 1, put(results, guess_, cost))

average_number_of_guesses(vocab, target) ==
    IF ~(Len(target) > 0) THEN [raised |-> "AssertionError", results |-> <<>>]
    ELSE IF Len(target) = 1 THEN [raised |-> "none", results |-> single_target]
    ELSE guess_loop(vocab, target, 1, <<>>)

(***************************************************************************)
(* naive_best_starting_word (src/wordle.py:73-91; src/naive.py:77-91 is    *)
(* the same loop).  A quotient of two integers is held as <<n, d>> in      *)
(* lowest terms: two such floats are equal exactly when the pairs are.     *)
(***************************************************************************)
in_lowest_terms(n, d, k) == <<n \div k, d \div k>>

quotient(n, d) == in_lowest_terms(n, d, gcd(n, d))

RECURSIVE sum(_)
sum(numbers) ==
    IF numbers = <<>> THEN 0 ELSE Head(numbers) + sum(Tail(numbers))

\* max(numbers) of a non-empty sequence
max(numbers) ==
    numbers[CHOOSE i \in 1..Len(numbers) : \A j \in 1..Len(numbers) : numbers[j] <= numbers[i]]

\* one entry for each distinct item of keys: how often it occurs in items
occurrences(keys, items) ==
    [k \in 1..Len(keys) |-> Cardinality({i \in 1..Len(items) : items[i] = keys[k]})]

\* hints.values(): how many words of the target set get each hint
hint_counts(guess_, target) ==
    LET hints == [i \in 1..Len(target) |-> guess_to_hint(guess_, target[i])]
    IN  occurrences(distinct_in_order(hints), hints)

\* remaining: the length of the filtered target set, for each hint
remaining(guess_, target) ==
    LET keys == hint_keys(guess_, target)
    IN  [k \in 1..Len(keys) |-> Len(filter_wordlist(target, guess_, keys[k]))]

\* sum(val * count for val, count in zip(remaining, hints.values()))
sum_of_products(left, counts) ==
    sum([k \in 1..Min(Len(left), Len(counts)) |-> left[k] * counts[k]])

\* the tuple stored for a guess, from remaining and hints.values()
tuple_of(left, counts) ==
    << quotient(sum_of_products(left, counts), sum(counts)),   \* average_case
       max(left),                                              \* worst_case
       Len(counts),                                            \* num_groups
       quotient(sum(left), Len(counts)) >>                     \* average_group_size

\* the tuple stored for one guess; the target set is not empty
evaluate_guess(guess_, target) ==
    tuple_of(remaining(guess_, target), hint_counts(guess_, target))

RECURSIVE naive_loop(_, _, _, _)
naive_loop(vocab, target, i, results) ==
    IF i > Len(vocab) THEN results
    ELSE naive_loop(vocab, target, i + 1,
                    put(results, vocab[i], evaluate_guess(vocab[i], target)))

\* [raised, results]; hints.total() is 0 for an empty target set and the
\* division raises in the first turn of the loop
naive_best_starting_word(vocab, target) ==
    IF Len(vocab) > 0 /\ Len(target) = 0
    THEN [raised |-> "ZeroDivisionError", results |-> <<>>]
    ELSE [raised |-> "none", results |-> naive_loop(vocab, target, 1, <<>>)]

(***************************************************************************)
(* preload_words_and_hints (src/wordle.py:136-187) when no cache file      *)
(* exists, and its inflate.  Indexes are 0-based as in the code.           *)
(***************************************************************************)
\* hint_num[hint]: hint string -> index, in the order of product('xyg', repeat=5)
hint_num(h) == hint_to_index[h]

\* list.index(word): the first 0-based position; none raises ValueError
index_of(list, word) == (CHOOSE i \in 1..Len(list) : list[i] = word /\
                             \A j \in 1..(i - 1) : list[j] # word) - 1

\* zip(*np.triu_indices(dim, 1)): the pairs above the diagonal, row by row
RECURSIVE triu_indices(_, _, _)
triu_indices(dim, row, col) ==
    IF row >= dim - 1 THEN <<>>
    ELSE IF col >= dim THEN triu_indices(dim, row + 1, row + 2)
    ELSE <<<<row, col>>>> \o triu_indices(dim, row, col + 1)

\* the position of the pair in triu_indices
triu_position(dim, row, col) ==
    CHOOSE t \in 1..Len(triu_indices(dim, 0, 1)) : triu_indices(dim, 0, 1)[t] = <<row, col>>

\* hints_triu: the hint of every pair above the diagonal, flat
hints_triu(words) ==
    LET pairs == triu_indices(Len(words), 0, 1)
    IN  [t \in 1..Len(pairs) |->
            uint8(hint_num(guess_to_hint(words[pairs[t][1] + 1], words[pairs[t][2] + 1])))]

\* inflate: zeros, the flat list above the diagonal, plus the transpose, and
\* 'ggggg' on the diagonal
inflate(above_diag, dim) ==
    LET upper == [row \in 0..(dim - 1) |-> [col \in 0..(dim - 1) |->
                     IF row < col THEN above_diag[triu_position(dim, row, col)] ELSE 0]]
        added == [row \in 0..(dim - 1) |-> [col \in 0..(dim - 1) |->
                     uint8(upper[row][col] + upper[col][row])]]
    IN  [row \in 0..(dim - 1) |-> [col \in 0..(dim - 1) |->
            IF row = col THEN hint_num([i \in 1..WordLen |-> "g"]) ELSE added[row][col]]]

\* [raised, valid_words, sol_indexes, hints] for the two word files
preload_words_and_hints(valid_txt, solutions_txt) ==
    LET words     == sorted(valid_txt)
        solutions == sorted(solutions_txt)
    IN  IF \E i \in 1..Len(solutions) : solutions[i] \notin set_of(words)
        THEN [raised |-> "ValueError", valid_words |-> <<>>, sol_indexes |-> <<>>,
              hints |-> <<>>]
        ELSE [raised |-> "none",
              valid_words |-> words,
              sol_indexes |-> [i \in 1..Len(solutions) |-> index_of(words, solutions[i])],
              hints |-> inflate(hints_triu(words), Len(words))]

(***************************************************************************)
(* naive_best_starting_word_faster (src/wordle.py:190-220): the same tuple *)
(* as naive_best_starting_word, with the hints read from a row of the      *)
(* matrix cached_hints instead of computed against the target set.         *)
(***************************************************************************)
\* hint_num[index]: index -> hint string
hint_of_num(n) == hint_strings_builder[n + 1]

\* cached_hints[guess_idx]: the whole row of the matrix, as a list
matrix_row(cached_hints, guess_idx) ==
    [c \in 1..Cardinality(DOMAIN cached_hints[guess_idx]) |-> cached_hints[guess_idx][c - 1]]

\* remaining: the length of the filtered target set, for each hint of the row
remaining_faster(guess_, target, keys) ==
    [k \in 1..Len(keys) |-> Len(filter_wordlist(target, guess_, hint_of_num(keys[k])))]

\* the tuple stored for the guess from the row read for it
tuple_of_row(guess_, target, row) ==
    tuple_of(remaining_faster(guess_, target, distinct_in_order(row)),
             occurrences(distinct_in_order(row), row))

\* guess_idx = vocabulary.index(guess); hints = Counter(cached_hints[guess_idx])
evaluate_guess_faster(vocab, target, cached_hints, guess_) ==
    tuple_of_row(guess_, target, matrix_row(cached_hints, index_of(vocab, guess_)))

RECURSIVE naive_faster_loop(_, _, _, _, _)
naive_faster_loop(vocab, target, cached_hints, i, results) ==
    IF i > Len(vocab) THEN results
    ELSE naive_faster_loop(vocab, target, cached_hints, i + 1,
             put(results, vocab[i], evaluate_guess_faster(vocab, target, cached_hints, vocab[i])))

\* [raised, results]; cached_hints[guess_idx] raises IndexError when the
\* vocabulary is longer than the matrix; a row of the matrix is never empty,
\* so hints.total() is not 0 even when the target set is empty
naive_best_starting_word_faster(vocab, target, cached_hints) ==
    IF Len(vocab) > Cardinality(DOMAIN cached_hints)
    THEN [raised |-> "IndexError", results |-> <<>>]
    ELSE [raised |-> "none", results |-> naive_faster_loop(vocab, target, cached_hints, 1, <<>>)]

(***************************************************************************)
(* Word pairs: every guess against every solution.  All the operations     *)
(* compare letters for equality only, so a guess is taken up to a renaming *)
(* of the letters: its letters first occur in increasing order.            *)
(***************************************************************************)
FirstOccurrencesInOrder(word) ==
    \A i \in 1..Len(word) :
        \/ word[i] = 1
        \/ \E j \in 1..(i - 1) : word[j] = word[i] - 1

Guesses == {w \in Words : FirstOccurrencesInOrder(w)}

InitPairs ==
    /\ pc = "start"
    /\ guess \in Guesses
    /\ solution \in Words
    /\ hint = <<>>
    /\ vocabulary = <<>>
    /\ target_set = <<>>
    /\ result = <<>>
    /\ raised = "none"

\* hint = guess_to_hint(guess, solution)
GuessToHint ==
    /\ pc = "start"
    /\ pc' = "hint"
    /\ IF guess_to_hint_raises(guess, solution)
       THEN result' = <<>> /\ raised' = "IndexError"
       ELSE result' = guess_to_hint(guess, solution) /\ raised' = "none"
    /\ UNCHANGED <<guess, solution, hint, vocabulary, target_set>>

\* precompute_guesses_to_hints over the two words, as guesses and as solutions
PrecomputeGuessesToHints ==
    /\ pc = "start"
    /\ pc' = "precomputed"
    /\ vocabulary' = <<guess, solution>>
    /\ target_set' = <<solution, guess>>
    /\ result' = precompute_guesses_to_hints(vocabulary', target_set')
    /\ UNCHANGED <<guess, solution, hint, raised>>

NextPairs == GuessToHint \/ PrecomputeGuessesToHints

SpecPairs == InitPairs /\ [][NextPairs]_vars

(***************************************************************************)
(* Claims on the feedback function.                                        *)
(***************************************************************************)
\* the positions of the hint that credit the guessed letter (green or yellow)
credited(h, g, letter) ==
    Cardinality({i \in 1..Len(h) : g[i] = letter /\ h[i] \in {"g", "y"}})

\* C2: for every pair of words and every letter L, the positions of the hint
\* that carry 'g' or 'y' for L are at most the occurrences of L in the solution
\* and at most the occurrences of L in the guess.
C2_CreditedWithinCounts ==
    pc = "hint" =>
        \A letter \in Letters :
            /\ credited(result, guess, letter) <= count(solution, letter)
            /\ credited(result, guess, letter) <= count(guess, letter)

\* a guess repeats a letter more often than the solution holds it, and the
\* hint credits it exactly as often as the solution holds it
C2_Witness ==
    /\ pc = "hint"
    /\ \E letter \in Letters :
        /\ count(solution, letter) >= 1
        /\ count(guess, letter) > count(solution, letter)
        /\ credited(result, guess, letter) = count(solution, letter)
        /\ \E i, j \in 1..WordLen :
            /\ guess[i] = letter /\ result[i] = "y"
            /\ guess[j] = letter /\ result[j] = "x"

greens(h) == {i \in 1..Len(h) : h[i] = "g"}
yellows(h) == {i \in 1..Len(h) : h[i] = "y"}

\* C3 as claimed: the feedback of a against b is the feedback of b against a.
C3_Symmetric ==
    pc = "hint" => result = guess_to_hint(solution, guess)

\* C3 amended: the feedback of a against b and of b against a have their
\* greens at the same positions and the same number of yellows; the
\* positions of the yellows may differ.
C3_SymmetricGreensAndYellowCount ==
    pc = "hint" =>
        /\ greens(result) = greens(guess_to_hint(solution, guess))
        /\ Cardinality(yellows(result)) =
               Cardinality(yellows(guess_to_hint(solution, guess)))

\* the two feedbacks differ although greens and yellow counts agree
C3_Witness ==
    /\ pc = "hint"
    /\ result # guess_to_hint(solution, guess)
    /\ yellows(result) # {}

\* C5: every cell of the vectorized matrix is the index, in the order of
\* hint_strings_builder, of guess_to_hint(source[i], target[j]).
C5_VectorizedMatchesElementwise ==
    pc = "precomputed" =>
        \A i \in 1..Len(vocabulary) : \A j \in 1..Len(target_set) :
            hint_strings_builder[result[i][j] + 1] =
                guess_to_hint(vocabulary[i], target_set[j])

\* a cell for a guess with a repeated letter that is yellow once and gray once
C5_Witness ==
    /\ pc = "precomputed"
    /\ \E p, q \in 1..WordLen :
        /\ p # q
        /\ guess[p] = guess[q]
        /\ hint_strings_builder[result[1][1] + 1][p] = "y"
        /\ hint_strings_builder[result[1][1] + 1][q] = "x"

(***************************************************************************)
(* Words of any length: guess_to_hint and filter_wordlist on a guess or a  *)
(* solution that is not 5 letters long.                                    *)
(***************************************************************************)
\* size of the alphabet of the words of any length
RaggedLetters == 2

\* how far below and above 5 the lengths of these words go
RaggedSpread == 1

RaggedWords ==
    UNION {[1..n -> 1..RaggedLetters] :
               n \in (WordLen - RaggedSpread)..(WordLen + RaggedSpread)}

InitRagged ==
    /\ pc = "start"
    /\ guess \in RaggedWords
    /\ solution \in RaggedWords
    /\ hint = <<>>
    /\ vocabulary = <<>>
    /\ target_set = <<>>
    /\ result = <<>>
    /\ raised = "none"

\* filter_wordlist([solution], guess, hint) with the hint just computed, as
\* naive_best_starting_word does for every hint it has seen
FilterWithHint ==
    /\ pc = "hint"
    /\ raised = "none"
    /\ pc' = "filtered"
    /\ hint' = result
    /\ target_set' = <<solution>>
    /\ IF filter_wordlist_raises(target_set', guess, hint')
       THEN result' = <<>> /\ raised' = "IndexError"
       ELSE result' = filter_wordlist(target_set', guess, hint') /\ raised' = "none"
    /\ UNCHANGED <<guess, solution, vocabulary>>

NextRagged == GuessToHint \/ FilterWithHint

SpecRagged == InitRagged /\ [][NextRagged]_vars

\* C10: when the guess or the solution is not exactly 5 letters long, the
\* call of guess_to_hint or filter_wordlist ends in an error and returns
\* nothing.
C10_MalformedRejected ==
    (pc \in {"hint", "filtered"} /\ (Len(guess) # WordLen \/ Len(solution) # WordLen))
        => raised # "none"

(***************************************************************************)
(* Word lists: the functions that take a vocabulary and a target set, on   *)
(* sorted lists of words of a small word file.                             *)
(***************************************************************************)
\* how many lines of the word file are read
NumWords == 5

\* the longest vocabulary and the longest target set
MaxList == 3

\* the lines of the word file
WordFile ==
    <<  <<20, 18, 1, 19, 8>>,    \* trash
        <<1, 18, 18, 1, 25>>,    \* array
        <<7, 18, 1, 22, 25>>,    \* gravy
        <<3, 18, 1, 26, 25>>,    \* crazy
        <<1, 18, 20, 19, 25>>,   \* artsy
        <<16, 15, 23, 5, 18>>,   \* power
        <<16, 15, 18, 3, 8>>,    \* porch
        <<16, 15, 12, 1, 18>>,   \* polar
        <<3, 1, 2, 1, 12>>,      \* cabal
        <<3, 15, 18, 1, 12>>  >> \* coral

\* the words read: sorted(s.strip() for s in txt_in)
valid_words == sorted(SubSeq(WordFile, 1, Min(NumWords, Len(WordFile))))

\* the sorted lists of at most MaxList of the words read
WordLists ==
    {sorted_set(S) : S \in {T \in SUBSET set_of(valid_words) : Cardinality(T) <= MaxList}}

Init ==
    /\ pc = "start"
    /\ vocabulary \in WordLists
    /\ target_set \in WordLists
    /\ guess = <<>>
    /\ solution = <<>>
    /\ hint = <<>>
    /\ result = <<>>
    /\ raised = "none"

\* filter_wordlist(target_set, g, h) for a guess g of the vocabulary and the
\* hint h that g gets against a solution s of the target set
FilterWordlist ==
    /\ pc = "start"
    /\ pc' = "filtered"
    /\ \E g \in set_of(vocabulary), s \in set_of(target_set) :
        /\ guess' = g
        /\ solution' = s
        /\ hint' = guess_to_hint(g, s)
        /\ result' = filter_wordlist(target_set, g, hint')
    /\ UNCHANGED <<vocabulary, target_set, raised>>

\* average_number_of_guesses(vocabulary, target_set)
AverageNumberOfGuesses ==
    /\ pc = "start"
    /\ pc' = "searched"
    /\ LET r == average_number_of_guesses(vocabulary, target_set)
       IN  result' = r.results /\ raised' = r.raised
    /\ UNCHANGED <<guess, solution, hint, vocabulary, target_set>>

\* naive_best_starting_word(vocabulary, target_set)
NaiveBestStartingWord ==
    /\ pc = "start"
    /\ pc' = "naive"
    /\ LET r == naive_best_starting_word(vocabulary, target_set)
       IN  result' = r.results /\ raised' = r.raised
    /\ UNCHANGED <<guess, solution, hint, vocabulary, target_set>>

\* preload_words_and_hints() with vocabulary as the lines of valid.txt and
\* target_set as the lines of solutions.txt
PreloadWordsAndHints ==
    /\ pc = "start"
    /\ pc' = "preloaded"
    /\ LET r == preload_words_and_hints(vocabulary, target_set)
       IN  /\ raised' = r.raised
           /\ result' = [valid_words |-> r.valid_words, sol_indexes |-> r.sol_indexes,
                         hints |-> r.hints]
    /\ UNCHANGED <<guess, solution, hint, vocabulary, target_set>>

\* valid_words, sol_indexes, hint_num, hints = preload_words_and_hints(): what
\* __main__ loads once, here with the words read as both files
preloaded == preload_words_and_hints(valid_words, valid_words)

\* naive_best_starting_word_faster(vocabulary, target_set, hints, hint_num)
\* with the matrix preloaded for valid_words
NaiveBestStartingWordFaster ==
    /\ pc = "start"
    /\ pc' = "faster"
    /\ LET r == naive_best_starting_word_faster(vocabulary, target_set, preloaded.hints)
       IN  result' = r.results /\ raised' = r.raised
    /\ UNCHANGED <<guess, solution, hint, vocabulary, target_set>>

Next ==
    \/ FilterWordlist
    \/ AverageNumberOfGuesses
    \/ NaiveBestStartingWord
    \/ PreloadWordsAndHints
    \/ NaiveBestStartingWordFaster

Spec == Init /\ [][Next]_vars

(***************************************************************************)
(* Claims on the filter and the search.                                    *)
(***************************************************************************)
\* C1: every word filter_wordlist returns reproduces the observed hint
\* exactly, and every word of the list that reproduces it is returned.
C1_FilterExact ==
    pc = "filtered" =>
        /\ \A k \in 1..Len(result) : guess_to_hint(guess, result[k]) = hint
        /\ \A i \in 1..Len(target_set) :
               guess_to_hint(guess, target_set[i]) = hint => target_set[i] \in set_of(result)

\* C7 as claimed: for a target set of exactly one word w the mapping returned
\* has the single entry w -> 0.
C7_BaseCaseMapsSoleWord ==
    (pc = "searched" /\ Len(target_set) = 1) =>
        /\ raised = "none"
        /\ result = << <<target_set[1], cost_zero>> >>

\* C7 amended: for a target set of exactly one word the mapping returned has
\* the single entry '' -> 0, whatever the vocabulary; its key is the empty
\* string, not the word.
C7_BaseCaseMapsEmptyString ==
    (pc = "searched" /\ Len(target_set) = 1) =>
        /\ raised = "none"
        /\ result = << << <<>>, cost_zero >> >>

\* the search has run on a target set of one word and a vocabulary of several
C7_Witness ==
    /\ pc = "searched"
    /\ Len(target_set) = 1
    /\ Len(vocabulary) >= 2
    /\ Len(result) = 1

\* the guess gets the same hint against every word of the target set
single_group(g) == Len(hint_keys(g, target_set)) = 1

is_minimal(k) == \A j \in 1..Len(result) : ~cost_less(result[j][2], result[k][2])

\* C8 as claimed: with two or more targets, a guess with a single feedback
\* group is never a minimal-cost entry of the mapping returned (the entry
\* whose value a caller takes with min(result.values())).
C8_SingleGroupNeverMinimal ==
    (pc = "searched" /\ raised = "none" /\ Len(target_set) >= 2) =>
        \A k \in 1..Len(result) : single_group(result[k][1]) => ~is_minimal(k)

\* C8 amended: with two or more targets, a guess with a single feedback group
\* is stored with the sentinel cost 1e30, and it is not a minimal-cost entry
\* whenever some entry of the mapping costs less than the sentinel; when no
\* entry does, the minimum of the mapping is the sentinel itself.
C8_SingleGroupCostsSentinel ==
    (pc = "searched" /\ raised = "none" /\ Len(target_set) >= 2) =>
        \A k \in 1..Len(result) :
            single_group(result[k][1]) =>
                /\ result[k][2] = cost_of(1, 0, 1)
                /\ (\E j \in 1..Len(result) : cost_less(result[j][2], cost_of(1, 0, 1)))
                       => ~is_minimal(k)

\* a mapping with a single-group guess and a guess that costs less
C8_Witness ==
    /\ pc = "searched"
    /\ raised = "none"
    /\ Len(target_set) >= 2
    /\ \E k, j \in 1..Len(result) :
        /\ single_group(result[k][1])
        /\ cost_less(result[j][2], result[k][2])

\* C9: for every vocabulary and every non-empty target set the search returns
\* a mapping and raises nothing.
C9_NeverRaises ==
    (pc = "searched" /\ Len(target_set) >= 1) => raised = "none"

\* the guess loop of average_number_of_guesses without its break: every guess
\* of the vocabulary is evaluated, each as the code evaluates it
RECURSIVE guess_loop_whole(_, _, _, _)
guess_loop_whole(vocab, target, i, results) ==
    IF i > Len(vocab) THEN [raised |-> "none", results |-> results]
    ELSE
      LET guess_ == vocab[i]
          reduced_vocabulary == sorted_set(set_of(vocab) \ {guess_})
          hints == hint_keys(guess_, target)
      IN  IF Len(hints) = 1
          THEN guess_loop_whole(vocab, target, i + 1, put(results, guess_, no_information))
          ELSE
            LET ng == hint_loop(reduced_vocabulary, target, guess_, hints, 1, <<>>)
                cost == cost_div(cost_sum(ng.costs), Len(ng.costs))
            IN  IF ng.raised # "none"
                THEN [raised |-> ng.raised, results |-> <<>>]
                ELSE guess_loop_whole(vocab, target, i + 1, put(results, guess_, cost))

\* no cost of the mapping is below 1
at_least_one(dict) == \A k \in 1..Len(dict) : ~cost_less(dict[k][2], cost_one)

\* the two mappings are both empty, or have the same minimum
same_minimum(d, e) ==
    /\ (d = <<>>) <=> (e = <<>>)
    /\ d # <<>> => cost_min(values(d)) = cost_min(values(e))

\* what stopping early keeps of the scan of the whole vocabulary
lossless(returned, whole) ==
    /\ at_least_one(returned)
    /\ whole.raised = "none"
    /\ at_least_one(whole.results)
    /\ same_minimum(returned, whole.results)

\* C11: with two or more targets, every cost of the mapping returned is at
\* least 1; scanning the whole vocabulary raises nothing either, finds no
\* guess with a cost below 1, and gives a mapping with the same minimum as
\* the one returned, whether the loop stopped early or not.
C11_EarlyTerminationLossless ==
    (pc = "searched" /\ raised = "none" /\ Len(target_set) >= 2) =>
        lossless(result, guess_loop_whole(vocabulary, target_set, 1, <<>>))

\* the loop has stopped at a guess of cost 1 and left a guess unscanned
stopped_early(returned, whole) ==
    /\ returned # <<>>
    /\ returned[Len(returned)][2] = cost_one
    /\ Len(returned) < Len(whole)
    /\ \E k \in 1..Len(whole) : cost_less(cost_one, whole[k][2])

\* the loop stopped at a guess of cost 1 before the end of the vocabulary,
\* and a guess it did not scan costs more
C11_Witness ==
    /\ pc = "searched"
    /\ raised = "none"
    /\ Len(target_set) >= 2
    /\ stopped_early(result, guess_loop_whole(vocabulary, target_set, 1, <<>>).results)

(***************************************************************************)
(* A game against one solution of the target set: the descent of           *)
(* average_number_of_guesses along the branch of one solution              *)
(* (src/wordle.py:102-126).  Every turn takes a guess of the vocabulary,   *)
(* filters the target set with the hint the guess gets against the         *)
(* solution, and goes on with the reduced vocabulary and the reduced       *)
(* target set: pc is "reduced" after the guess of the outermost call and   *)
(* "descended" after a guess of a nested one.  The code descends only from *)
(* a group of several words that is smaller than the target set; a game    *)
(* here goes on from any group.                                            *)
(***************************************************************************)
InitGame ==
    /\ pc = "start"
    /\ vocabulary \in WordLists
    /\ target_set \in WordLists \ {<<>>}
    /\ solution \in set_of(target_set)
    /\ guess = <<>>
    /\ hint = <<>>
    /\ result = <<>>
    /\ raised = "none"

\* reduced_vocabulary = sorted(set(vocabulary) - set([guess]));
\* reduced_target_set = filter_wordlist(target_set, guess, hint) for the hint
\* of the solution
FilterWithTrueHint ==
    /\ pc \in {"start", "reduced", "descended"}
    /\ pc' = IF pc = "start" THEN "reduced" ELSE "descended"
    /\ \E g \in set_of(vocabulary) :
        /\ guess' = g
        /\ vocabulary' = sorted_set(set_of(vocabulary) \ {g})
        /\ hint' = guess_to_hint(g, solution)
        /\ result' = target_set
        /\ target_set' = filter_wordlist(target_set, g, hint')
    /\ UNCHANGED <<solution, raised>>

NextGame == FilterWithTrueHint

SpecGame == InitGame /\ [][NextGame]_vars

group_sizes(g) ==
    LET keys == distinct_in_order([i \in 1..Len(target_set) |-> guess_to_hint(g, target_set[i])])
    IN  [k \in 1..Len(keys) |->
            Cardinality({i \in 1..Len(target_set) : guess_to_hint(g, target_set[i]) = keys[k]})]

\* C6: for every guess and non-empty target set, the average_case stored is
\* the sum of the squared sizes of the feedback groups divided by the size of
\* the target set.
C6_AverageIsSumOfSquares ==
    (pc = "naive" /\ raised = "none" /\ Len(target_set) >= 1) =>
        \A k \in 1..Len(result) :
            LET sizes == group_sizes(result[k][1])
                squares == sum([i \in 1..Len(sizes) |-> sizes[i] * sizes[i]])
            IN  result[k][2][1][1] * Len(target_set) = squares * result[k][2][1][2]

\* C4: every cell of the matrix preload_words_and_hints builds is the index
\* of the hint of the row's word as the guess against the column's word as
\* the solution: on the diagonal, above it and below it.
C4_MatrixIsGuessToHint ==
    (pc = "preloaded" /\ raised = "none") =>
        \A g, s \in 0..(Len(result.valid_words) - 1) :
            result.hints[g][s] =
                hint_num(guess_to_hint(result.valid_words[g + 1], result.valid_words[s + 1]))

\* C13: for every vocabulary and target set that are sub-lists of valid_words,
\* naive_best_starting_word_faster with the preloaded matrix ends as
\* naive_best_starting_word does and stores the same tuple for every guess
\* (taken here on the non-empty target sets, where the direct evaluator
\* returns).
C13_FasterAgreesWithDirect ==
    (pc = "faster" /\ Len(target_set) >= 1) =>
        /\ raised = naive_best_starting_word(vocabulary, target_set).raised
        /\ result = naive_best_starting_word(vocabulary, target_set).results

=============================================================================
